---- MODULE Spec2Model ----
(***************************************************************************)
(* State-machine model of cobaya/theories/camb/camb.py: the requirement    *)
(* aggregator camb.needs(), the two calculate stages (CambTransfers and    *)
(* camb) and the derived-parameter lookup.                                 *)
(*                                                                         *)
(* Python objects are records; a Python dict is a function whose DOMAIN is *)
(* the set of keys present, so that dict.get(key, default) and "key in d"  *)
(* are modelled by what they do.  Every method is an operator from the     *)
(* object before the call to the object after it, plus the outcome of the  *)
(* call (returned value or raised error).                                  *)
(***************************************************************************)
EXTENDS Integers, Sequences, FiniteSets, TLC

\* ------------------------------------------------------------------ bounds
MaxNeeds == 3
MaxSetupNeeds == 1
MaxEvals == 1
MaxCacheEvals == 2
MaxZNeeds == 2
MaxZEvals == 1

\* ------------------------------------------------- generic Python helpers
SeqToSet(s) == {s[i] : i \in DOMAIN s}

\* the value just requested taken in place of the maximum
Latest(a, b) == a

Max(a, b) == IF a >= b THEN a ELSE b

MaxOfSet(S) == CHOOSE x \in S : \A y \in S : y <= x

DictGet(d, key, default) == IF key \in DOMAIN d THEN d[key] ELSE default

DictSet(d, key, x) == [y \in DOMAIN d \cup {key} |-> IF y = key THEN x ELSE d[y]]

DictPop(d, keys) == [y \in DOMAIN d \ keys |-> d[y]]

DictUpdate(d, e) == [y \in DOMAIN d \cup DOMAIN e |-> IF y \in DOMAIN e THEN e[y] ELSE d[y]]

Values(d) == {d[y] : y \in DOMAIN d}

RECURSIVE SortAscSet(_)
SortAscSet(S) ==
    IF S = {} THEN <<>>
    ELSE LET m == CHOOSE x \in S : \A y \in S : x <= y
         IN  <<m>> \o SortAscSet(S \ {m})

Reverse(s) == [i \in 1..Len(s) |-> s[Len(s) + 1 - i]]

\* np.unique: the sorted unique elements of an array
np_unique(s) == SortAscSet(SeqToSet(s))

\* np.sort: ascending, duplicates kept
RECURSIVE Insert(_, _)
Insert(x, s) ==
    IF s = <<>> THEN <<x>>
    ELSE IF x <= Head(s) THEN <<x>> \o s
    ELSE <<Head(s)>> \o Insert(x, Tail(s))

RECURSIVE np_sort(_)
np_sort(s) == IF s = <<>> THEN <<>> ELSE Insert(Head(s), np_sort(Tail(s)))

IsStrictlyDescending(s) == \A i \in 1..(Len(s) - 1) : s[i] > s[i + 1]

\* ------------------------------------------------------- names and orders
\* str.lower() on the spectrum labels a likelihood may pass
lower(a) ==
    CASE a = "TT" -> "tt"
      [] a = "PP" -> "pp"
      [] a = "pT" -> "pt"
      [] OTHER -> a

\* rank of a matter-power variable name in Python's string order, for sorted(pair)
VarRank(name) ==
    CASE name = "delta_nonu" -> 1
      [] name = "delta_tot" -> 2
      [] name = "v_newtonian_cdm" -> 3

sorted_pair(pair) ==
    IF VarRank(pair[1]) <= VarRank(pair[2]) THEN <<pair[1], pair[2]>>
    ELSE <<pair[2], pair[1]>>

\* BoltzmannBase.translate_param: self.renames.get(p, p)
renames == [omegal |-> "omega_de"]

translate_param(p) == DictGet(renames, p, p)

\* collector keys: a 1-tuple for a named product, and
\* ("Pk_grid", nonlinear) + tuple(sorted(pair)) for matter power
Key(k) == <<k>>

\* line 366 without sorted(): the pair as the request gives it
PkKey_unsorted(nonlinear, pair) == <<"Pk_grid", nonlinear>> \o pair

PkKey(nonlinear, pair) == <<"Pk_grid", nonlinear>> \o sorted_pair(pair)

\* Collector = namedtuple("collector", ["method", "args", "kwargs"]), defaults (None, [], {})
Collector(method, kwargs) == [method |-> method, args |-> <<>>, kwargs |-> kwargs]

\* collectors[k] = None (the CAMBdata passthrough)
NoCollector == [method |-> "None", args |-> <<>>, kwargs |-> <<>>]

BackgroundProducts == {"Hubble", "angular_diameter_distance", "comoving_radial_distance"}

PkProducts == {"Pk_interpolator", "Pk_grid"}

LensingTypes == {"pp", "pt", "pe", "tp", "ep"}

\* line 330 testing the five types of line 313
LensingCrossTypes_with_auto == {"pp", "pt", "pe", "tp", "ep"}

LensingCrossTypes == {"pt", "pe", "tp", "ep"}

\* Python's None (an object field or a requirement's option record may hold it)
None == [is_none |-> TRUE]

\* the table of lines 413-417 with the lensing-only and matter-power-only values
\* exchanged
NonLinear_exchanged(non_linear_sources, non_linear_pk) ==
    CASE non_linear_sources /\ non_linear_pk -> "NonLinear_both"
      [] non_linear_sources /\ ~non_linear_pk -> "NonLinear_pk"
      [] ~non_linear_sources /\ non_linear_pk -> "NonLinear_lens"
      [] OTHER -> "NonLinear_none"

\* camb.model.NonLinear_*; NonLinear_none stands for the False the code stores
NonLinear(non_linear_sources, non_linear_pk) ==
    CASE non_linear_sources /\ non_linear_pk -> "NonLinear_both"
      [] non_linear_sources /\ ~non_linear_pk -> "NonLinear_lens"
      [] ~non_linear_sources /\ non_linear_pk -> "NonLinear_pk"
      [] OTHER -> "NonLinear_none"

\* ------------------------------------------------------------ camb.needs
\* BoltzmannBase.needs: folds a request into the accumulated self._needs.
\* Redshifts, pairs and sources are accumulated as given; normalising them is
\* the job of camb.needs below.
MergeRequirement(old, k, v) ==
    CASE k = "Cl" ->
            [t \in DOMAIN old \cup DOMAIN v |->
                Max(DictGet(old, t, 0), DictGet(v, t, 0))]
      [] k \in BackgroundProducts \cup {"fsigma8"} ->
            [old EXCEPT !.z = @ \o v.z]
      [] k \in PkProducts ->
            DictUpdate(old, [v EXCEPT !.z = old.z \o @,
                                      !.k_max = Max(old.k_max, @),
                                      !.vars_pairs = old.vars_pairs \o @])
      [] k = "source_Cl" ->
            DictUpdate(old, [v EXCEPT !.sources =
                old.sources \o SelectSeq(@, LAMBDA w : \A i \in DOMAIN old.sources :
                                                          old.sources[i].name # w.name)])
      [] OTHER -> old

BoltzmannBase_needs(self, k, v) ==
    IF k \in DOMAIN self._needs
    THEN [self EXCEPT !._needs = DictSet(@, k, MergeRequirement(@[k], k, v))]
    ELSE [self EXCEPT !._needs = DictSet(@, k, v), !._needs_keys = Append(@, k)]

\* add_to_redshifts without the [::-1] of line 427
add_to_redshifts_ascending(self, z) ==
    [self EXCEPT !.extra_args = DictSet(@, "redshifts",
        np_sort(np_unique(z \o DictGet(@, "redshifts", <<>>))))]

add_to_redshifts(self, z) ==
    [self EXCEPT !.extra_args = DictSet(@, "redshifts",
        Reverse(np_sort(np_unique(z \o DictGet(@, "redshifts", <<>>)))))]

_combine_z(self, k, v) ==
    IF Key(k) \in DOMAIN self.collectors
    THEN np_sort(np_unique(self.collectors[Key(k)].kwargs.z \o v.z))
    ELSE np_sort(v.z)

\* lines 325-327 setting the accuracy without looking for a configured value
default_accuracy_always(self, cls) ==
    IF "pp" \in cls
    THEN [self EXCEPT !.extra_args = DictSet(@, "lens_potential_accuracy", 1)]
    ELSE self

\* lines 325-327: lens_potential_accuracy defaults to 1 when pp is requested and
\* no value is configured
default_accuracy(self, cls) ==
    IF "pp" \in cls /\ "lens_potential_accuracy" \notin DOMAIN self.extra_args
    THEN [self EXCEPT !.extra_args = DictSet(@, "lens_potential_accuracy", 1)]
    ELSE self

\* lines 309-333
needs_Cl(self, k, v) ==
    LET cls == {lower(a) : a \in DOMAIN v}
        needs_lensing == cls \cap LensingTypes
        old_spectra ==
            IF Key(k) \in DOMAIN self.collectors
            THEN DictGet(self.collectors[Key(k)].kwargs, "spectra", {})
            ELSE {}
        s1 == [self EXCEPT
                 !.extra_args = DictSet(@, "lmax",
                                   Max(MaxOfSet(Values(v)), DictGet(@, "lmax", 0))),
                 !.collectors = DictSet(@, Key(k),
                     Collector("get_cmb_power_spectra",
                         [spectra |-> old_spectra \cup {"total"} \cup
                                      (IF needs_lensing # {} THEN {"lens_potential"} ELSE {}),
                          raw_cl |-> FALSE])),
                 !.needs_perts = TRUE,
                 !.extra_attrs = DictSet(DictSet(@, "Want_CMB", TRUE), "WantCls", TRUE)]
        s2 == default_accuracy(s1, cls)
        s3 == [s2 EXCEPT !.non_linear_sources =
                  DictGet(s2.extra_args, "lens_potential_accuracy", 1) >= 1]
        s4 == IF cls \cap LensingCrossTypes # {}
              THEN [s3 EXCEPT !._needs_lensing_cross = TRUE]
              ELSE s3
        s5 == IF "TCMB" \notin SeqToSet(s4.derived_extra)
              THEN [s4 EXCEPT !.derived_extra = Append(@, "TCMB")]
              ELSE s4
    IN  [self |-> s5, raised |-> "none"]

\* lines 334-341
needs_background(self, k, v) ==
    [self |-> [self EXCEPT !.collectors = DictSet(@, Key(k),
                   Collector(IF k = "Hubble" THEN "h_of_z" ELSE k,
                             [z |-> _combine_z(self, k, v)]))],
     raised |-> "none"]

\* lines 342-347
needs_fsigma8(self, k, v) ==
    LET s1 == add_to_redshifts(self, v.z)
    IN  [self |-> [s1 EXCEPT !.collectors =
                       DictSet(@, Key(k), Collector("get_fsigma8", <<>>)),
                             !.needs_perts = TRUE],
         raised |-> "none"]

\* lines 365-369: every iteration update()s the one kwargs dict and binds it to
\* the product's collector, so all collectors of the loop hold the same dict.
\* Returns that dict as the loop leaves it and the keys bound to it.
RECURSIVE PkLoop(_, _, _, _)
PkLoop(pairs, nonlinear, kwargs, products) ==
    IF pairs = <<>> THEN [kwargs |-> kwargs, products |-> products]
    ELSE PkLoop(Tail(pairs), nonlinear,
                DictUpdate(kwargs, [var1 |-> Head(pairs)[1], var2 |-> Head(pairs)[2]]),
                products \cup {PkKey(nonlinear, Head(pairs))})

\* line 355 testing hubble_units alone
unsupported_units_hubble_only(kwargs) ==
    DictGet(kwargs, "hubble_units", FALSE)

\* line 355: the request asks for Hubble units
unsupported_units(kwargs) ==
    DictGet(kwargs, "hubble_units", FALSE) \/ DictGet(kwargs, "k_hunit", FALSE)

\* lines 348-370
needs_Pk(self, k, v0) ==
    LET s1 == [self EXCEPT !.extra_args =
                  DictSet(@, "kmax", Max(v0.k_max, DictGet(@, "kmax", 0)))]
        s2 == add_to_redshifts(s1, v0.z)
        \* v is the dict held in self._needs: the default pair is stored in place
        v == [v0 EXCEPT !.vars_pairs =
                 IF @ = <<>> THEN << <<"delta_tot", "delta_tot">> >> ELSE @]
        s3 == [s2 EXCEPT !._needs = DictSet(@, k, v)]
        kwargs == DictPop(DictUpdate(v, [hubble_units |-> FALSE, k_hunit |-> FALSE]),
                          {"k_max", "z", "vars_pairs"})
        s4 == IF kwargs.nonlinear THEN [s3 EXCEPT !.non_linear_pk = TRUE] ELSE s3
        loop == PkLoop(v.vars_pairs, kwargs.nonlinear, kwargs, {})
        s5 == [s4 EXCEPT
                 !.collectors = [key \in DOMAIN @ \cup loop.products |->
                     IF key \in loop.products
                     THEN Collector("get_linear_matter_power_spectrum", loop.kwargs)
                     ELSE @[key]],
                 !.needs_perts = TRUE]
    IN  IF unsupported_units(v) THEN [self |-> s3, raised |-> "unsupported_units"]
        ELSE [self |-> s5, raised |-> "none"]

\* lines 371-388; self.sources keeps insertion order (odict)
needs_source_Cl(self, k, v) ==
    LET new == SelectSeq(v.sources, LAMBDA w :
                   \A i \in DOMAIN self.sources : self.sources[i].name # w.name)
        s1 == [self EXCEPT
                 !.sources = @ \o new,
                 !.limber = DictGet(v, "limber", TRUE),
                 !.non_linear_sources = @ \/ DictGet(v, "non_linear", FALSE),
                 !.needs_perts = TRUE,
                 !.collectors = DictSet(@, Key(k), Collector("get_source_cls_dict", <<>>)),
                 !.extra_attrs = DictSet(DictSet(@, "Want_cl_2D_array", TRUE),
                                         "WantCls", TRUE)]
        s2 == IF "lmax" \in DOMAIN v
              THEN [s1 EXCEPT !.extra_args =
                       DictSet(@, "lmax", Max(v.lmax, DictGet(@, "lmax", 0)))]
              ELSE s1
    IN  [self |-> s2, raised |-> "none"]

\* lines 392-399
needs_derived(self, k, v) ==
    LET k_translated == translate_param(k)
        s1 == IF k_translated \notin SeqToSet(self.derived_extra)
              THEN [self EXCEPT !.derived_extra = Append(@, k_translated)]
              ELSE self
        s2 == IF k = "sigma8"
              THEN [s1 EXCEPT !.extra_attrs = DictSet(@, "WantTransfer", TRUE),
                              !.needs_perts = TRUE]
              ELSE s1
    IN  [self |-> s2, raised |-> "none"]

\* one iteration of "for k, v in self._needs.items()", lines 307-402
needs_item(self, k, v) ==
    CASE k = "Cl" -> needs_Cl(self, k, v)
      [] k \in BackgroundProducts -> needs_background(self, k, v)
      [] k = "fsigma8" -> needs_fsigma8(self, k, v)
      [] k \in PkProducts -> needs_Pk(self, k, v)
      [] k = "source_Cl" -> needs_source_Cl(self, k, v)
      [] k = "CAMBdata" ->
            [self |-> [self EXCEPT !.collectors = DictSet(@, Key(k), NoCollector)],
             raised |-> "none"]
      [] OTHER ->
            IF v = None THEN needs_derived(self, k, v)
            ELSE [self |-> self, raised |-> "should_not_happen"]

RECURSIVE needs_loop(_, _)
needs_loop(keys, st) ==
    IF keys = <<>> \/ st.raised # "none" THEN st
    ELSE needs_loop(Tail(keys),
                    needs_item(st.self, Head(keys), st.self._needs[Head(keys)]))

\* camb.needs, lines 294-423: the object after the call and the error raised, if any
camb_needs(self, k, v) ==
    LET st == needs_loop(BoltzmannBase_needs(self, k, v)._needs_keys,
                         [self |-> BoltzmannBase_needs(self, k, v), raised |-> "none"])
        s1 == st.self
    IN  IF st.raised # "none" THEN st
        ELSE IF s1.input_params \cap DOMAIN s1.extra_args # {}
        THEN [self |-> s1, raised |-> "repeated_parameters"]
        ELSE [self |-> [s1 EXCEPT
                          !.extra_attrs = DictSet(@, "NonLinear",
                              NonLinear(s1.non_linear_sources, s1.non_linear_pk)),
                          !._base_params = None],
              raised |-> "none"]

\* the summary camb.needs returns, lines 421-423
needs_summary(self) ==
    [non_linear |-> self.non_linear_sources, needs_perts |-> self.needs_perts]

\* CambTransfers.needs without the test of lines 800-806
CambTransfers_needs_unchecked(helper, opts, cobaya_camb) ==
    [self |-> [helper EXCEPT !.non_linear_sources = opts.non_linear,
                             !.needs_perts = opts.needs_perts],
     raised |-> "none"]

\* CambTransfers.needs(CAMB_transfers=opts), lines 792-806
CambTransfers_needs(helper, opts, cobaya_camb) ==
    LET h1 == [helper EXCEPT !.non_linear_sources = opts.non_linear,
                             !.needs_perts = opts.needs_perts]
    IN  IF helper.input_params \cap DOMAIN cobaya_camb.extra_args # {}
        THEN [self |-> h1, raised |-> "repeated_parameters"]
        ELSE [self |-> h1, raised |-> "none"]

\* ------------------------------------------------------- camb.initialize
\* The solver's set_params signatures, as getfullargspec reports them: the
\* argument names after self, each with the kind of its default value.
InitialPowerLaw_set_params ==
    << [arg |-> "As", default |-> "number"], [arg |-> "ns", default |-> "number"],
       [arg |-> "r", default |-> "number"], [arg |-> "nt", default |-> "none"],
       [arg |-> "pivot_scalar", default |-> "number"],
       [arg |-> "parameterization", default |-> "other"] >>

Halofit_set_params ==
    << [arg |-> "halofit_version", default |-> "other"],
       [arg |-> "HMCode_A_baryon", default |-> "number"],
       [arg |-> "HMCode_eta_baryon", default |-> "number"] >>

\* zip(pars.args[1:], pars.defaults[1:]): args[0] is self, which has no default,
\* so argument i is paired with the default of argument i + 1 and the last
\* argument is dropped
zip_args_defaults(sig) ==
    [i \in 1..(Len(sig) - 1) |-> [arg |-> sig[i].arg, v |-> sig[i + 1].default]]

\* lines 270-278, for one model: the names moved from extra_args to the model's
\* args, and the names that become parameters of the primary unit
model_args(sig, extra_args) ==
    {zip_args_defaults(sig)[i].arg : i \in DOMAIN zip_args_defaults(sig)} \cap DOMAIN extra_args

model_params(sig, extra_args) ==
    SelectSeq([i \in DOMAIN zip_args_defaults(sig) |-> zip_args_defaults(sig)[i]],
              LAMBDA a : a.arg \notin DOMAIN extra_args /\ a.v \in {"number", "none"})

Names(seq) == [i \in DOMAIN seq |-> seq[i].arg]

\* line 289 returning the primordial-spectrum parameters alone
get_can_support_params_power_only(self) == self.power_params

get_can_support_params(self) == self.power_params \o self.nonlin_params

\* camb.initialize, lines 244-282, followed by initialize_with_params, 284-286
initialize(cfg) ==
    LET moved == model_args(Halofit_set_params, cfg.extra_args) \cup
                 model_args(InitialPowerLaw_set_params,
                            DictPop(cfg.extra_args, model_args(Halofit_set_params, cfg.extra_args)))
        s0 == [extra_args |-> DictPop(cfg.extra_args, moved),
               extra_attrs |->
                   IF cfg.input_params \cap {"r", "At"} # {}
                   THEN [Want_CMB |-> FALSE, Want_cl_2D_array |-> FALSE, WantCls |-> FALSE,
                         WantTensors |-> TRUE]
                   ELSE [Want_CMB |-> FALSE, Want_cl_2D_array |-> FALSE, WantCls |-> FALSE],
               derived_extra |-> <<>>,
               needs_perts |-> FALSE,
               limber |-> FALSE,
               non_linear_sources |-> FALSE,
               non_linear_pk |-> FALSE,
               _base_params |-> None,
               _reduced_extra_args |-> <<>>,
               _needs_lensing_cross |-> FALSE,
               initial_power_args |->
                   [a \in model_args(InitialPowerLaw_set_params, cfg.extra_args) |->
                       cfg.extra_args[a]],
               power_params |-> Names(model_params(InitialPowerLaw_set_params, cfg.extra_args)),
               nonlin_args |->
                   [a \in model_args(Halofit_set_params, cfg.extra_args) |-> cfg.extra_args[a]],
               nonlin_params |-> Names(model_params(Halofit_set_params, cfg.extra_args)),
               requires |-> <<>>,
               _transfer_requires |-> <<>>,
               sources |-> <<>>,
               collectors |-> <<>>,
               _needs |-> <<>>,
               _needs_keys |-> <<>>,
               input_params |-> cfg.input_params,
               output_params |-> cfg.output_params,
               stop_at_error |-> cfg.stop_at_error]
    IN  [s0 EXCEPT
           !._transfer_requires =
               SelectSeq(cfg.requires,
                         LAMBDA p : p \notin SeqToSet(get_can_support_params(s0))),
           !.requires =
               SelectSeq(cfg.requires,
                         LAMBDA p : p \notin SeqToSet(SelectSeq(cfg.requires,
                             LAMBDA q : q \notin SeqToSet(get_can_support_params(s0)))))]

\* CambTransfers.__init__, lines 784-790 (created by get_helper_theories, 707-716)
CambTransfers_init(cobaya_camb, cfg) ==
    [needs_perts |-> FALSE,
     non_linear_sources |-> FALSE,
     stop_at_error |-> cobaya_camb.stop_at_error,
     requires |-> cobaya_camb._transfer_requires,
     input_params |-> cfg.transfer_input_params]

\* lines 850-851 with "> 1" written ">= 1"
initialize_with_params_at_least_one(helper) ==
    IF Cardinality(helper.input_params \cap {"H0", "cosmomc_theta", "thetastar"}) >= 1
    THEN "more_than_one" ELSE "none"

\* CambTransfers.initialize_with_params, lines 847-854: the error raised, if any
CambTransfers_initialize_with_params(helper) ==
    IF Cardinality(helper.input_params \cap {"H0", "cosmomc_theta", "thetastar"}) > 1
    THEN "more_than_one" ELSE "none"

\* ------------------------------------------------------------ the solver
\* What a call into the solver does: it returns, or raises one of the error
\* classes of camb.baseconfig.
SolverOutcomes ==
    {"ok", "CAMBParamRangeError", "CAMBError", "CAMBValueError", "CAMBUnknownArgumentError"}

\* an except clause that catches every solver error
IsAnySolverError(e) == e # "ok"

\* an except clause for CAMBParamRangeError alone
IsRangeError(e) == e = "CAMBParamRangeError"

\* "except CAMBError" also catches CAMBParamRangeError, its subclass
IsCAMBError(e) == e \in {"CAMBError", "CAMBParamRangeError"}

\* argument names (after self) of CAMBparams.set_classes, set_matter_power, set_for_lmax
set_classes_args ==
    <<"dark_energy_model", "initial_power_model", "non_linear_model", "recombination_model">>

set_matter_power_args ==
    <<"redshifts", "kmax", "k_per_logint", "nonlinear",
      "accurate_massive_neutrino_transfers", "silent">>

set_for_lmax_args ==
    <<"lmax", "max_eta_k", "lens_potential_accuracy", "lens_margin", "k_eta_fac",
      "lens_k_eta_reference", "nonlinear">>

\* what results.get_derived_params() holds, and the attributes and zero-argument
\* get_<name> accessors of the parameter object and of the result object
\* Some names are offered by more than one of them, and the mapping holds None
\* for the names of DerivedMapNones.
DerivedMapNames == {"age", "rdrag", "zstar"}

DerivedMapNones == {"kd"}

ParamsAttrs == {"TCMB", "H0", "omegam", "zstar", "kd"}

ResultsAttrs == {"omega_de", "omegam", "N_eff"}

ParamsGetters == {"zre", "N_eff"}

\* ------------------------------------------------- errors and return values
False == [is_false |-> TRUE]

NoError == [kind |-> "none", what |-> "", params |-> <<>>]

Error(kind, what, params) == [kind |-> kind, what |-> what, params |-> params]

\* --------------------------------------------------------------- camb.set
\* lines 645-652: the names popped from _reduced_extra_args before the loop
\* reaches a sampled fixed parameter (all of them when it reaches none)
RECURSIVE fixed_before_sampled(_, _)
fixed_before_sampled(fixed, args) ==
    IF fixed = <<>> \/ Head(fixed) \in DOMAIN args THEN {}
    ELSE {Head(fixed)} \cup fixed_before_sampled(Tail(fixed), args)

\* except clauses that swallow every solver error
set_except_swallowing(self, e, params_values_dict) ==
    [ret |-> False, raised |-> NoError]

\* lines 686-705: what the except clauses of set() make of a solver error
set_except(self, e, params_values_dict) ==
    CASE e = "CAMBParamRangeError" ->
            IF self.stop_at_error
            THEN [ret |-> False, raised |-> Error("LoggedError", "Out of bound parameters",
                                                 params_values_dict)]
            ELSE [ret |-> False, raised |-> NoError]
      [] e \in {"CAMBValueError", "CAMBError"} ->
            IF self.stop_at_error
            THEN [ret |-> False, raised |-> Error(e, "Error setting parameters",
                                                 params_values_dict)]
            ELSE [ret |-> False, raised |-> NoError]
      [] OTHER ->
            [ret |-> False, raised |-> Error("LoggedError", "not recognized", <<>>)]

\* line 685 handing over self._base_params itself: the solver sets args on the
\* object it is given, so the base object ends up holding the point's values
set_params_on_base(self, args) ==
    [self |-> [self EXCEPT !._base_params = [base |-> @, args |-> args]],
     ret |-> [base |-> self._base_params, args |-> args]]

\* line 685, camb.set_params(self._base_params.copy(), **args): the solver sets
\* args on the object it is given and returns it; it is given a copy, so
\* self._base_params stays as it was
set_params_on_copy(self, args) ==
    [self |-> self, ret |-> [base |-> self._base_params, args |-> args]]

\* camb.set, lines 626-705.  o_base and o_set are what the solver does in the
\* two camb.set_params calls (lines 643 and 685).
camb_set(self, params_values_dict, o_base, o_set) ==
    LET args == [q \in {translate_param(p) : p \in DOMAIN params_values_dict} |->
                    params_values_dict[CHOOSE p \in DOMAIN params_values_dict :
                                           translate_param(p) = q]]
        fixed == set_classes_args \o set_matter_power_args \o set_for_lmax_args
        base_args ==
            IF ~self.extra_attrs["WantCls"]
            THEN DictPop(DictUpdate(args, self.extra_args), SeqToSet(set_for_lmax_args))
            ELSE DictUpdate(args, self.extra_args)
        s1 == [self EXCEPT !._reduced_extra_args = self.extra_args]
        s2 == [s1 EXCEPT !._reduced_extra_args =
                  DictPop(@, fixed_before_sampled(fixed, args))]
        sampled_fixed == SeqToSet(fixed) \cap DOMAIN args # {}
        bad_window == \E i \in DOMAIN self.sources :
                          self.sources[i].window.function \notin {"spline", "gaussian"}
        params == [base_args |-> base_args,
                   attrs |-> self.extra_attrs,
                   SourceWindows |-> self.sources,
                   limber_windows |-> IF self.sources # <<>> THEN self.limber ELSE FALSE]
        s3 == [s2 EXCEPT !._base_params = params]
    IN  IF self._base_params = None
        THEN IF o_base # "ok"
             THEN [self |-> s1] @@ set_except(s1, o_base, params_values_dict)
             ELSE IF sampled_fixed
             THEN [self |-> s2, ret |-> False,
                   raised |-> Error("LoggedError", "Trying to sample fixed theory parameter",
                                    <<>>)]
             ELSE IF bad_window
             THEN [self |-> s2, ret |-> False,
                   raised |-> Error("LoggedError", "Unknown source window function type",
                                    <<>>)]
             ELSE IF o_set # "ok"
             THEN [self |-> s3] @@ set_except(s3, o_set, params_values_dict)
             ELSE set_params_on_copy(s3, args) @@ [raised |-> NoError]
        ELSE IF o_set # "ok"
             THEN [self |-> self] @@ set_except(self, o_set, params_values_dict)
             ELSE set_params_on_copy(self, DictUpdate(args, self._reduced_extra_args))
                      @@ [raised |-> NoError]

\* --------------------------------------------------- CambTransfers.calculate
\* lines 819-827 without the test of needs_perts
transfer_routine_ignoring_perts(helper) ==
    IF helper.non_linear_sources THEN "get_transfer_functions_only_time_sources"
    ELSE "get_background"

\* lines 819-827: the solver routine the transfer stage calls
transfer_routine(helper) ==
    IF helper.non_linear_sources THEN "get_transfer_functions_only_time_sources"
    ELSE IF helper.needs_perts THEN "get_transfer_functions"
    ELSE "get_background"

\* CambTransfers.calculate without lines 816-817: the routine is called and its
\* result stored whatever set() returned
CambTransfers_calculate_unguarded(helper, cobaya_camb, params_values_dict, o_base, o_set, o_transfer) ==
    LET r == camb_set(cobaya_camb, params_values_dict, o_base, o_set)
    IN  [camb |-> r.self, ret |-> None, raised |-> r.raised,
         results |-> [camb_params |-> r.ret,
                      results |-> [routine |-> transfer_routine(helper), Params |-> r.ret,
                                   InitPower |-> <<>>, NonLinearModel |-> <<>>,
                                   power_spectra |-> FALSE]],
         invoked |-> transfer_routine(helper)]

\* CambTransfers.calculate, lines 811-842.  Returns the primary unit after set(),
\* the value returned ("None" on success, False on failure), the error raised,
\* the state['results'] pair stored and the solver routine invoked, if any.
CambTransfers_calculate(helper, cobaya_camb, params_values_dict, o_base, o_set, o_transfer) ==
    LET r == camb_set(cobaya_camb, params_values_dict, o_base, o_set)
        results == [routine |-> transfer_routine(helper), Params |-> r.ret,
                    InitPower |-> <<>>, NonLinearModel |-> <<>>, power_spectra |-> FALSE]
        none == [camb |-> r.self, ret |-> False, raised |-> NoError, results |-> None,
                 invoked |-> "none"]
    IN  IF r.raised # NoError THEN [none EXCEPT !.raised = r.raised]
        ELSE IF r.ret = False THEN none
        ELSE IF o_transfer = "ok"
        THEN [none EXCEPT !.ret = None,
                          !.results = [camb_params |-> r.ret, results |-> results],
                          !.invoked = transfer_routine(helper)]
        ELSE IF IsCAMBError(o_transfer)
        THEN IF helper.stop_at_error
             THEN [none EXCEPT !.raised = Error(o_transfer, "Computation error",
                                                params_values_dict),
                               !.invoked = transfer_routine(helper)]
             ELSE [none EXCEPT !.invoked = transfer_routine(helper)]
        ELSE [none EXCEPT !.raised = Error(o_transfer, "uncaught", <<>>),
                          !.invoked = transfer_routine(helper)]

\* ------------------------------------------------------------ camb.calculate
\* a value read from the solver: where it was found and under which name
Value(src, name) == [src |-> src, name |-> name]

\* results.get_derived_params()
get_derived_params ==
    [name \in DerivedMapNames \cup DerivedMapNones |->
        IF name \in DerivedMapNones THEN None ELSE Value("derived", name)]

\* _get_derived looking at the attributes of the parameter object before the
\* derived mapping
_get_derived_attributes_first(p, intermediates) ==
    IF p \in ParamsAttrs
    THEN [value |-> Value("camb_params", p), raised |-> NoError]
    ELSE IF intermediates.derived # None /\ p \in DOMAIN intermediates.derived
            /\ intermediates.derived[p] # None
    THEN [value |-> intermediates.derived[p], raised |-> NoError]
    ELSE IF p = "sigma8"
    THEN IF intermediates.results = None
         THEN [value |-> None,
               raised |-> Error("AttributeError", "NoneType has no get_sigma8", <<>>)]
         ELSE [value |-> Value("get_sigma8", p), raised |-> NoError]
    ELSE IF intermediates.results # None /\ p \in ResultsAttrs
    THEN [value |-> Value("results", p), raised |-> NoError]
    ELSE IF p \in ParamsGetters
    THEN [value |-> Value("get_", p), raised |-> NoError]
    ELSE [value |-> None, raised |-> NoError]

\* camb._get_derived, lines 482-501.  intermediates = CAMBOutputs(camb_params,
\* results, derived); results and derived are None when no collector is registered.
\* Reading an attribute of None raises AttributeError.
_get_derived(p, intermediates) ==
    IF intermediates.derived # None /\ p \in DOMAIN intermediates.derived
       /\ intermediates.derived[p] # None
    THEN [value |-> intermediates.derived[p], raised |-> NoError]
    ELSE IF p = "sigma8"
    THEN IF intermediates.results = None
         THEN [value |-> None,
               raised |-> Error("AttributeError", "NoneType has no get_sigma8", <<>>)]
         ELSE [value |-> Value("get_sigma8", p), raised |-> NoError]
    ELSE IF p \in ParamsAttrs
    THEN [value |-> Value("camb_params", p), raised |-> NoError]
    ELSE IF intermediates.results # None /\ p \in ResultsAttrs
    THEN [value |-> Value("results", p), raised |-> NoError]
    ELSE IF p \in ParamsGetters
    THEN [value |-> Value("get_", p), raised |-> NoError]
    ELSE [value |-> None, raised |-> NoError]

\* camb._get_derived_output, lines 503-517: the derived dict built up to the
\* first parameter that fails, and the error raised there
RECURSIVE _get_derived_output(_, _, _)
_get_derived_output(output_params, intermediates, derived) ==
    IF output_params = <<>> THEN [derived |-> derived, raised |-> NoError]
    ELSE LET p == Head(output_params)
             r == _get_derived(translate_param(p), intermediates)
         IN  IF r.raised # NoError THEN [derived |-> derived, raised |-> r.raised]
             ELSE IF r.value = None
             THEN [derived |-> DictSet(derived, p, None),
                   raised |-> Error("LoggedError", "Derived param not implemented", <<p>>)]
             ELSE _get_derived_output(Tail(output_params), intermediates,
                                      DictSet(derived, p, r.value))

\* lines 479-480: the derived_extra dict, or the error of the first lookup that raises
RECURSIVE get_derived_extra(_, _, _)
get_derived_extra(names, intermediates, out) ==
    IF names = <<>> THEN [derived_extra |-> out, raised |-> NoError]
    ELSE LET r == _get_derived(Head(names), intermediates)
         IN  IF r.raised # NoError THEN [derived_extra |-> out, raised |-> r.raised]
             ELSE get_derived_extra(Tail(names), intermediates,
                                    DictSet(out, Head(names), r.value))

\* lines 441-450: the result object after the primary unit has set its own
\* parameters on it and run power_spectra_from_transfer
primary_results(self, results, params_values_dict) ==
    LET power_args ==
            DictUpdate([q \in {translate_param(p) :
                               p \in DOMAIN params_values_dict \cap SeqToSet(self.power_params)}
                           |-> params_values_dict[CHOOSE p \in DOMAIN params_values_dict :
                                                      translate_param(p) = q]],
                       self.initial_power_args)
        nonlin_args ==
            DictUpdate([q \in {translate_param(p) :
                               p \in DOMAIN params_values_dict \cap SeqToSet(self.nonlin_params)}
                           |-> params_values_dict[CHOOSE p \in DOMAIN params_values_dict :
                                                      translate_param(p) = q]],
                       self.nonlin_args)
    IN  [results EXCEPT
           !.InitPower = power_args,
           !.NonLinearModel = IF self.non_linear_sources \/ self.non_linear_pk
                              THEN nonlin_args ELSE @,
           !.power_spectra = TRUE]

\* lines 453-458 without the else branch: collectors without a method are skipped
collect_methods_only(self, results) ==
    [product \in {c \in DOMAIN self.collectors : self.collectors[c] # NoCollector} |->
        [method |-> self.collectors[product].method,
         kwargs |-> self.collectors[product].kwargs,
         results |-> results]]

\* lines 453-458: state[product] for every collector
collect(self, results) ==
    [product \in DOMAIN self.collectors |->
        IF self.collectors[product] # NoCollector
        THEN [method |-> self.collectors[product].method,
              kwargs |-> self.collectors[product].kwargs,
              results |-> results]
        ELSE results]

\* line 440 without its test
always_collectors(self) == TRUE

\* line 440: "if self.collectors"
has_collectors(self) == DOMAIN self.collectors # {}

\* camb.calculate, lines 437-480.  transfers is the (camb_params, results) pair of
\* provider.get_CAMB_transfers(); o is what the solver does in the try block and
\* where the place of the call that raises: "set_params" (lines 444-449),
\* "power_spectra_from_transfer" (line 450) or "collector" (line 456).
\* Returns the state dict, the value returned (None, or False), the error raised,
\* whether the solver failed, whether power_spectra_from_transfer was called and
\* the result object as the call leaves it (None when it was not touched).
camb_calculate(self, state, transfers, want_derived, params_values_dict, o, where) ==
    LET results == IF has_collectors(self)
                   THEN primary_results(self, transfers.results, params_values_dict)
                   ELSE None
        failed == /\ has_collectors(self)
                  /\ o # "ok"
                  /\ where = "collector" =>
                        \E product \in DOMAIN self.collectors :
                            self.collectors[product] # NoCollector
        ps_invoked == has_collectors(self) /\ (o = "ok" \/ where # "set_params")
        state1 == IF has_collectors(self) THEN DictUpdate(state, collect(self, results)) ELSE state
        intermediates == [camb_params |-> transfers.camb_params,
                          results |-> results,
                          derived |-> IF results # None THEN get_derived_params ELSE None]
        d == _get_derived_output(self.output_params, intermediates, <<>>)
        state2 == IF want_derived THEN DictSet(state1, Key("derived"), d.derived) ELSE state1
        e == get_derived_extra(self.derived_extra, intermediates, <<>>)
        state3 == DictSet(state2, Key("derived_extra"), e.derived_extra)
        out == [state |-> state, ret |-> False, raised |-> NoError, failed |-> failed,
                ps_invoked |-> ps_invoked,
                results |-> IF failed /\ where = "set_params" THEN None
                            ELSE IF failed /\ where = "power_spectra_from_transfer"
                            THEN [results EXCEPT !.power_spectra = FALSE]
                            ELSE results]
    IN  IF failed
        THEN IF IsCAMBError(o)
             THEN IF self.stop_at_error
                  THEN [out EXCEPT !.raised = Error(o, "Computation error",
                                                    state[Key("params")])]
                  ELSE out
             ELSE [out EXCEPT !.raised = Error(o, "uncaught", <<>>)]
        ELSE IF want_derived /\ d.raised # NoError
        THEN [out EXCEPT !.state = state1, !.raised = d.raised]
        ELSE IF e.raised # NoError
        THEN [out EXCEPT !.state = state2, !.raised = e.raised]
        ELSE [out EXCEPT !.state = state3, !.ret = None]

\* ------------------------------------------------------ camb._get_z_dependent
\* what a stored product holds: one row per redshift of the grid the solver
\* computed it on, in the order of that grid.  The background methods are called
\* with the collector's z (line 337, 341); get_fsigma8 takes no argument (lines
\* 344-346) and returns one row per redshift of the parameters it was run with
\* (the solver's own single redshift 0 when none was set in them).
StoredRows(quantity, stored) ==
    LET base_args == stored.results.Params.base.base_args
        zs == IF quantity = "fsigma8"
              THEN IF "redshifts" \in DOMAIN base_args THEN base_args["redshifts"]
                   ELSE <<0>>
              ELSE stored.kwargs.z
    IN  [i \in DOMAIN zs |-> [quantity |-> quantity, z |-> zs[i]]]

\* np.where(computed_redshifts == zi)[0], line 568: the positions of zi
np_where(grid, zi) ==
    LET S == {i \in DOMAIN grid : grid[i] = zi}
    IN  SortAscSet(S)

\* np.searchsorted with side='right': the position after the last element <= zi
np_searchsorted_right(grid, zi) == Cardinality({i \in DOMAIN grid : grid[i] <= zi}) + 1

\* np.searchsorted(computed_redshifts, zi), line 571: the position of the first
\* element of the ascending grid that is not below zi (counted from 1)
np_searchsorted(grid, zi) == Cardinality({i \in DOMAIN grid : grid[i] < zi}) + 1

\* line 567-568: np.concatenate of the positions of every zi
RECURSIVE where_all(_, _)
where_all(grid, z) ==
    IF z = <<>> THEN <<>> ELSE np_where(grid, Head(z)) \o where_all(grid, Tail(z))

\* camb._get_z_dependent, lines 564-572: the rows returned, or the IndexError
\* raised when a position is past the end of the stored array
_get_z_dependent(self, state, quantity, z) ==
    LET rows == StoredRows(quantity, state[Key(quantity)])
        i_kwarg_z ==
            IF quantity = "fsigma8"
            THEN where_all(self.extra_args["redshifts"], z)
            ELSE [i \in DOMAIN z |->
                     np_searchsorted(self.collectors[Key(quantity)].kwargs.z, z[i])]
    IN  IF \E i \in DOMAIN i_kwarg_z : i_kwarg_z[i] > Len(rows)
        THEN [rows |-> <<>>, raised |-> "IndexError"]
        ELSE [rows |-> [i \in DOMAIN i_kwarg_z |-> rows[i_kwarg_z[i]]], raised |-> "none"]

\* ------------------------------------------------------------------ inputs
\* requests a likelihood may make: redshifts unsorted, repeated, overlapping
PkOptions ==
    {[z |-> <<1>>, k_max |-> 1, vars_pairs |-> <<>>, nonlinear |-> FALSE],
     [z |-> <<0, 2>>, k_max |-> 2, nonlinear |-> TRUE,
      vars_pairs |-> << <<"delta_tot", "delta_tot">>, <<"delta_nonu", "delta_nonu">> >>],
     [z |-> <<2>>, k_max |-> 1, nonlinear |-> FALSE, hubble_units |-> FALSE,
      k_hunit |-> FALSE, vars_pairs |-> << <<"delta_tot", "delta_nonu">> >>],
     [z |-> <<2>>, k_max |-> 1, nonlinear |-> FALSE,
      vars_pairs |-> << <<"delta_nonu", "delta_tot">>, <<"delta_tot", "delta_tot">> >>],
     [z |-> <<3>>, k_max |-> 3, nonlinear |-> FALSE, hubble_units |-> TRUE,
      vars_pairs |-> <<>>],
     [z |-> <<1>>, k_max |-> 1, nonlinear |-> TRUE, hubble_units |-> FALSE,
      k_hunit |-> TRUE, vars_pairs |-> <<>>]}

Window(name, function) == [name |-> name, window |-> [function |-> function]]

Request(k, v) == [k |-> k, v |-> v]

\* the requests of the aggregation runs
NeedsRequests ==
    {Request("Cl", [tt |-> 1, pT |-> 2]), Request("Cl", [TT |-> 2, PP |-> 1])}
    \cup {Request("Hubble", [z |-> z]) : z \in {<<1>>, <<2, 0>>, <<1, 1>>}}
    \cup {Request("angular_diameter_distance", [z |-> <<0, 2>>])}
    \cup {Request("fsigma8", [z |-> z]) : z \in {<<0, 2>>, <<1, 1>>}}
    \cup {Request("Pk_grid", v) : v \in PkOptions}
    \cup {Request("Pk_interpolator", v) : v \in {w \in PkOptions : w.z = <<2>>}}
    \cup {Request("source_Cl", [sources |-> <<Window("lens", "gaussian")>>,
                                non_linear |-> TRUE, lmax |-> 3])}
    \cup {Request("CAMBdata", None), Request("sigma8", None)}

\* the requests of the evaluation runs
SetupRequests ==
    {Request("Cl", [tt |-> 2]),
     Request("Hubble", [z |-> <<1>>]),
     Request("Pk_grid", [z |-> <<1>>, k_max |-> 2, vars_pairs |-> <<>>,
                         nonlinear |-> FALSE, hubble_units |-> TRUE]),
     Request("CAMBdata", None),
     Request("sigma8", None),
     Request("foo", None)}

ParamValues == 0..1

\* configurations of the aggregation runs
NeedsConfigs ==
    {[extra_args |-> ea, input_params |-> {"As", "ns"},
      transfer_input_params |-> {"H0", "ombh2"}, output_params |-> <<>>,
      stop_at_error |-> FALSE, requires |-> <<>>] :
        ea \in {<<>>, [redshifts |-> <<3, 0>>, kmax |-> 2, lmax |-> 1],
                [lens_potential_accuracy |-> 0], [lens_potential_accuracy |-> 2],
                [H0 |-> 1]}}
    \cup {[extra_args |-> <<>>, input_params |-> {"As", "ns"},
           transfer_input_params |-> tip, output_params |-> <<>>,
           stop_at_error |-> FALSE, requires |-> <<>>] :
             tip \in {{"cosmomc_theta", "ombh2"}, {"H0", "cosmomc_theta"},
                      {"H0", "cosmomc_theta", "thetastar"}}}
    \cup {[extra_args |-> [HMCode_eta_baryon |-> 1],
           input_params |-> {"As", "HMCode_eta_baryon"},
           transfer_input_params |-> {"H0", "ombh2"}, output_params |-> <<>>,
           stop_at_error |-> FALSE, requires |-> <<>>]}

\* configurations of the evaluation runs
EvalConfigs ==
    {[extra_args |-> <<>>, input_params |-> {"As", "ns"},
      transfer_input_params |-> {"H0", "ombh2"}, output_params |-> op,
      stop_at_error |-> stop, requires |-> <<>>] :
        op \in {<<>>, <<"H0", "age">>, <<"omegal", "bar", "baz">>,
                <<"zstar", "kd", "omegam", "N_eff", "zre">>},
        stop \in BOOLEAN}

\* configurations of the caching runs
CacheConfigs == {cfg \in EvalConfigs : cfg.output_params = <<>>}

\* ------------------------------------------------------------------- state
VARIABLES
    camb,            \* the primary unit (class camb)
    camb_transfers,  \* the helper stage (class CambTransfers) and its cached state
    current_state,   \* camb._current_state: the state of the last successful calculate
    pc,              \* "idle", or "primary" between the two stages of an evaluation
    aborted,         \* an error has propagated to the caller: the run is over
    last,            \* the last operation, its input and how it ended
    ev,              \* what happened in the current (or last) evaluation
    prev,            \* the same for the evaluation before it
    requested,       \* every redshift requested so far, per product
    nNeeds,
    nEvals,
    config,          \* the configuration the units were constructed with
    history          \* the requests passed to needs() so far, in order

vars == <<camb, camb_transfers, current_state, pc, aborted, last, ev, prev, requested,
          nNeeds, nEvals, config, history>>

NoEval ==
    [tp |-> 0, pp |-> 0, needs_seen |-> 0, hit |-> FALSE, transfer_ok |-> FALSE,
     transfer_invoked |-> "none", ps_invoked |-> FALSE,
     collectors |-> FALSE, want_derived |-> FALSE,
     solver_error |-> "ok", stage |-> "none", ret |-> "none", raised |-> NoError]

InitWith(cfg) ==
    /\ camb = initialize(cfg)
    /\ camb_transfers =
           CambTransfers_init(initialize(cfg), cfg) @@
           [_current_state |-> None, cached_params |-> None]
    /\ current_state = <<>>
    /\ pc = "idle"
    /\ aborted =
           (CambTransfers_initialize_with_params(CambTransfers_init(initialize(cfg), cfg))
               # "none")
    /\ last = [op |-> "init", k |-> "", v |-> None,
               raised |-> CambTransfers_initialize_with_params(
                              CambTransfers_init(initialize(cfg), cfg)),
               changed |-> FALSE]
    /\ ev = NoEval
    /\ prev = NoEval
    /\ requested = [product \in BackgroundProducts \cup {"perturbations"} |->
                       IF product = "perturbations"
                       THEN SeqToSet(DictGet(cfg.extra_args, "redshifts", <<>>))
                       ELSE {}]
    /\ nNeeds = 0
    /\ config = cfg
    /\ history = <<>>
    /\ nEvals = 0

Init == \E cfg \in EvalConfigs : InitWith(cfg)

InitCache == \E cfg \in CacheConfigs : InitWith(cfg)

InitNeeds == \E cfg \in NeedsConfigs : InitWith(cfg)

\* what needs() is documented to configure: collectors, extra_args, stage flags
Configuration(self) ==
    <<self.collectors, self.extra_args, self.extra_attrs, self.needs_perts,
      self.non_linear_sources, self.non_linear_pk, self._needs_lensing_cross,
      self.derived_extra, self.sources, self.limber>>

\* ----------------------------------------------------------------- actions
\* camb.needs(k=v); the summary it returns is handed to CambTransfers.needs
Needs(k, v) ==
    /\ pc = "idle"
    /\ ~aborted
    /\ \E r \in {camb_needs(camb, k, v)} :
       \E h \in {CambTransfers_needs(camb_transfers, needs_summary(r.self), r.self)} :
           /\ camb' = r.self
           /\ camb_transfers' = IF r.raised = "none" THEN h.self ELSE camb_transfers
           /\ aborted' = (r.raised # "none" \/ h.raised # "none")
           /\ last' = [op |-> "needs", k |-> k, v |-> v,
                       raised |-> IF r.raised # "none" THEN r.raised ELSE h.raised,
                       changed |-> Configuration(r.self) # Configuration(camb)]
    /\ requested' =
          IF k \in BackgroundProducts
          THEN [requested EXCEPT ![k] = @ \cup SeqToSet(v.z)]
          ELSE IF k \in PkProducts \cup {"fsigma8"}
          THEN [requested EXCEPT !["perturbations"] = @ \cup SeqToSet(v.z)]
          ELSE requested
    /\ nNeeds' = nNeeds + 1
    /\ history' = Append(history, Request(k, v))
    /\ UNCHANGED <<current_state, pc, ev, prev, nEvals, config>>

NeedsAny ==
    \E r \in NeedsRequests : nNeeds < MaxNeeds /\ Needs(r.k, r.v)

NeedsSetup ==
    \E r \in SetupRequests : nNeeds < MaxSetupNeeds /\ Needs(r.k, r.v)

\* The first non-ok outcome among the solver calls of the transfer stage.
FirstError(o_base, o_set, o_transfer) ==
    IF o_base # "ok" THEN o_base ELSE IF o_set # "ok" THEN o_set ELSE o_transfer

\* The helper stage's state is reused when it was computed for the same values of
\* its own input parameters ("the result is cached when only initial power
\* spectrum or non-linear model parameters change", lines 779-782).
cache_hit(helper, params_values_dict) == helper.cached_params = params_values_dict

\* First stage of the evaluation of the point (tp, pp): the helper stage is asked
\* for its result.  When its parameter values equal those of its cached state the
\* cached state is reused and calculate is not called; otherwise
\* CambTransfers.calculate runs.  o_base, o_set and o_transfer are what the solver
\* does in set_params (lines 643, 685) and in the transfer routine; an outcome is
\* "ok" for a call that is not reached.
TransferStage(tp, pp, o_base, o_set, o_transfer) ==
    /\ pc = "idle"
    /\ ~aborted
    /\ LET params_values_dict == [p \in camb_transfers.input_params |-> tp]
           hit == cache_hit(camb_transfers, params_values_dict)
           e == [NoEval EXCEPT !.tp = tp, !.pp = pp, !.needs_seen = nNeeds,
                               !.ret = "pending"]
       IN  \E r \in {CambTransfers_calculate(camb_transfers, camb, params_values_dict,
                                             o_base, o_set, o_transfer)} :
           /\ hit => o_base = "ok" /\ o_set = "ok" /\ o_transfer = "ok"
           /\ camb._base_params # None => o_base = "ok"
           /\ IF hit
              THEN /\ ev' = [e EXCEPT !.hit = TRUE, !.transfer_ok = TRUE]
                   /\ pc' = "primary"
                   /\ UNCHANGED <<camb, camb_transfers, aborted>>
              ELSE /\ camb' = r.camb
                   /\ ev' = [e EXCEPT
                               !.transfer_invoked = r.invoked,
                               !.transfer_ok = (r.raised = NoError /\ r.ret = None),
                               !.solver_error = FirstError(o_base, o_set, o_transfer),
                               !.stage = IF FirstError(o_base, o_set, o_transfer) = "ok"
                                         THEN "none"
                                         ELSE IF o_transfer # "ok" THEN "transfer" ELSE "set",
                               !.ret = IF r.raised # NoError THEN "raised"
                                       ELSE IF r.ret = False THEN "False" ELSE "pending",
                               !.raised = r.raised]
                   /\ aborted' = (r.raised # NoError)
                   /\ pc' = IF r.raised = NoError /\ r.ret = None THEN "primary" ELSE "idle"
                   /\ camb_transfers' =
                         IF r.raised = NoError /\ r.ret = None
                         THEN [camb_transfers EXCEPT !._current_state = r.results,
                                                     !.cached_params = params_values_dict]
                         ELSE camb_transfers
    /\ prev' = ev
    /\ last' = [op |-> "transfer", k |-> "", v |-> None, raised |-> "none", changed |-> FALSE]
    /\ nEvals' = nEvals + 1
    /\ UNCHANGED <<current_state, requested, nNeeds, config, history>>

\* Second stage: camb.calculate on the pair the helper stage holds.
PrimaryStage(want_derived, o, where) ==
    /\ pc = "primary"
    /\ LET params_values_dict == [p \in camb.input_params |-> ev.pp]
           transfers == camb_transfers._current_state
       IN  \E r \in {camb_calculate(camb, [x \in {Key("params")} |-> params_values_dict],
                                    transfers, want_derived, params_values_dict, o, where)} :
           /\ o # "ok" => r.failed
           /\ ev' = [ev EXCEPT
                       !.ps_invoked = r.ps_invoked,
                       !.collectors = (DOMAIN camb.collectors # {}),
                       !.want_derived = want_derived,
                       !.solver_error = IF r.failed THEN o ELSE "ok",
                       !.stage = IF r.failed THEN "primary" ELSE "none",
                       !.ret = IF r.raised # NoError THEN "raised"
                               ELSE IF r.ret = False THEN "False" ELSE "None",
                       !.raised = r.raised]
           /\ aborted' = (r.raised # NoError)
           /\ current_state' = IF r.raised = NoError /\ r.ret = None
                               THEN r.state ELSE current_state
           /\ camb_transfers' =
                 IF r.results # None
                 THEN [camb_transfers EXCEPT !._current_state.results = r.results]
                 ELSE camb_transfers
    /\ pc' = "idle"
    /\ last' = [op |-> "calculate", k |-> "", v |-> None, raised |-> "none",
                changed |-> FALSE]
    /\ UNCHANGED <<camb, prev, requested, nNeeds, nEvals, config, history>>

\* what the three solver calls of the transfer stage do: all return, or one of
\* them raises (the calls after it are not reached)
TransferOutcomes ==
    {<<"ok", "ok", "ok">>}
    \cup {<<e, "ok", "ok">> : e \in SolverOutcomes \ {"ok"}}
    \cup {<<"ok", e, "ok">> : e \in SolverOutcomes \ {"ok"}}
    \cup {<<"ok", "ok", e>> : e \in SolverOutcomes \ {"ok"}}

\* what the solver calls of the primary stage do: all return, or one raises
PrimaryOutcomes ==
    {<<"ok", "set_params">>}
    \cup {<<e, where>> : e \in SolverOutcomes \ {"ok"},
                        where \in {"set_params", "power_spectra_from_transfer", "collector"}}

Evaluate ==
    /\ nEvals < MaxEvals
    /\ \E tp \in ParamValues, pp \in ParamValues, o \in TransferOutcomes :
           TransferStage(tp, pp, o[1], o[2], o[3])

Calculate ==
    \E want_derived \in BOOLEAN, o \in PrimaryOutcomes :
        PrimaryStage(want_derived, o[1], o[2])

\* the evaluations of the caching runs: the solver returns, or refuses the
\* values when the base parameters are built (line 643), or fails with a
\* CAMBError in the transfer routine or in the primary stage
EvaluateAgain ==
    /\ nEvals < MaxCacheEvals
    /\ \E tp \in ParamValues, pp \in ParamValues,
          o \in {<<"ok", "ok", "ok">>, <<"ok", "ok", "CAMBError">>,
                 <<"CAMBParamRangeError", "ok", "ok">>} :
           TransferStage(tp, pp, o[1], o[2], o[3])

CalculateAgain ==
    \E o \in {<<"ok", "set_params">>, <<"CAMBError", "set_params">>,
               <<"CAMBError", "power_spectra_from_transfer">>} :
        PrimaryStage(TRUE, o[1], o[2])

\* the requests of the runs that read redshift-dependent products back
ZRequests ==
    {Request("Hubble", [z |-> z]) : z \in {<<1>>, <<2, 0, 2>>}}
    \cup {Request("fsigma8", [z |-> z]) : z \in {<<0, 2>>, <<1, 1>>}}
    \cup {Request("Pk_grid", [z |-> <<3>>, k_max |-> 1, vars_pairs |-> <<>>,
                              nonlinear |-> FALSE])}

\* the redshift lists a caller passes to the getters
ZLists == {<<a>> : a \in 0..2} \cup {<<a, b>> : a \in 0..2, b \in 0..2}

NeedsZ ==
    \E r \in ZRequests : nNeeds < MaxZNeeds /\ Needs(r.k, r.v)

\* an evaluation in which the solver raises nothing
EvaluateOk ==
    /\ nEvals < MaxZEvals
    /\ TransferStage(0, 0, "ok", "ok", "ok")

CalculateOk == PrimaryStage(FALSE, "ok", "set_params")

\* get_Hubble / get_fsigma8 and the like: _get_z_dependent(quantity, z) on the
\* current state, lines 564-575
GetZDependent ==
    /\ pc = "idle"
    /\ ~aborted
    /\ \E quantity \in {"Hubble", "fsigma8"}, z \in ZLists :
          /\ Key(quantity) \in DOMAIN current_state
          /\ \E r \in {_get_z_dependent(camb, current_state, quantity, z)} :
                /\ last' = [op |-> "get_z", k |-> quantity,
                            v |-> [z |-> z, rows |-> r.rows],
                            raised |-> r.raised, changed |-> FALSE]
                /\ aborted' = (r.raised # "none")
    /\ UNCHANGED <<camb, camb_transfers, current_state, pc, ev, prev, requested, nNeeds,
                   nEvals, config, history>>

\* --------------------------------------------------------- specifications
\* setup, one evaluation and reads of the redshift-dependent products
ZConfigs ==
    {[extra_args |-> <<>>, input_params |-> {"As", "ns"},
      transfer_input_params |-> {"H0", "ombh2"}, output_params |-> <<>>,
      stop_at_error |-> FALSE, requires |-> <<>>]}
    \cup {[extra_args |-> ea, input_params |-> {"As"},
           transfer_input_params |-> {"H0", "ombh2"}, output_params |-> <<>>,
           stop_at_error |-> FALSE,
           requires |-> <<"As", "H0", "halofit_version", "ombh2", "HMCode_eta_baryon",
                          "ns">>] :
             ea \in {<<>>, [ns |-> 1, HMCode_eta_baryon |-> 1]}}

InitZ == \E cfg \in ZConfigs : InitWith(cfg)

NextZ == NeedsZ \/ EvaluateOk \/ CalculateOk \/ GetZDependent

SpecZ == InitZ /\ [][NextZ]_vars

\* setup and evaluations, with every outcome of the solver
Next == NeedsSetup \/ Evaluate \/ Calculate

Spec == Init /\ [][Next]_vars

\* setup and successive evaluations
NextCache == NeedsSetup \/ EvaluateAgain \/ CalculateAgain

SpecCache == InitCache /\ [][NextCache]_vars

\* requirement aggregation alone: any sequence of needs() calls
NextNeeds == NeedsAny

SpecNeeds == InitNeeds /\ [][NextNeeds]_vars

\* ------------------------------------------------- requirement aggregation
\* C2: after any sequence of needs() calls requesting fsigma8, Pk_grid or
\* Pk_interpolator, extra_args['redshifts'] is the deduplicated union of every
\* redshift requested for these products and of the redshifts configured at the
\* start, in strictly descending order; being a function of that set alone it
\* does not depend on the order of the requests.
RedshiftsDescendingUnion ==
    DOMAIN camb._needs \cap (PkProducts \cup {"fsigma8"}) # {} =>
        /\ "redshifts" \in DOMAIN camb.extra_args
        /\ camb.extra_args["redshifts"] = Reverse(SortAscSet(requested["perturbations"]))
        /\ IsStrictlyDescending(camb.extra_args["redshifts"])

\* two requests and a configured grid that overlap and arrive unsorted
RedshiftsMerged ==
    /\ nNeeds >= 2
    /\ ~aborted
    /\ "fsigma8" \in DOMAIN camb._needs
    /\ "redshifts" \in DOMAIN camb.extra_args
    /\ camb.extra_args["redshifts"] = <<3, 2, 1, 0>>

\* C3: the z grid in the collector of Hubble, angular_diameter_distance and
\* comoving_radial_distance is the set of the redshifts requested for the product,
\* ascending and without duplicates, also after a single first request.
BackgroundGridAscendingUnique ==
    \A k \in BackgroundProducts :
        Key(k) \in DOMAIN camb.collectors =>
            camb.collectors[Key(k)].kwargs.z = SortAscSet(requested[k])

\* C4: the collector entries of a Pk request naming several variable pairs are
\* independent: the var1, var2 arguments of each entry are the pair of its key.
PkEntriesHoldOwnPair ==
    \A key \in DOMAIN camb.collectors :
        key[1] = "Pk_grid" =>
            sorted_pair(<<camb.collectors[key].kwargs.var1,
                          camb.collectors[key].kwargs.var2>>) = <<key[3], key[4]>>

\* C8: needs() raises for a Pk_grid or Pk_interpolator request whose hubble_units
\* or k_hunit option is true and the call adds no matter-power collector; with
\* both false or absent the units are not refused, every pair the request names has a
\* collector, and the matter-power collectors store hubble_units = False and
\* k_hunit = False.
PkCollectors(self) == {key \in DOMAIN self.collectors : key[1] = "Pk_grid"}

HubbleUnitsStep ==
    (nNeeds' = nNeeds + 1 /\ last'.k \in PkProducts) =>
        IF DictGet(last'.v, "hubble_units", FALSE) \/ DictGet(last'.v, "k_hunit", FALSE)
        THEN /\ last'.raised = "unsupported_units"
             /\ aborted'
             /\ PkCollectors(camb') = PkCollectors(camb)
        ELSE /\ last'.raised # "unsupported_units"
             /\ PkCollectors(camb') # {}
             /\ \A pair \in SeqToSet(last'.v.vars_pairs) :
                    PkKey(last'.v.nonlinear, pair) \in PkCollectors(camb')
             /\ \A key \in PkCollectors(camb') :
                    /\ ~camb'.collectors[key].kwargs.hubble_units
                    /\ ~camb'.collectors[key].kwargs.k_hunit

HubbleUnitsRejected == [][HubbleUnitsStep]_vars

\* a k_hunit request has been refused after another product was registered
HubbleUnitsRefusal ==
    /\ last.op = "needs"
    /\ last.k \in PkProducts
    /\ DictGet(last.v, "k_hunit", FALSE)
    /\ last.raised = "unsupported_units"
    /\ DOMAIN camb.collectors # {}

\* --------------------------------------------------------------- evaluation
\* the evaluation has ended, with a return value or with an error
Finished(e) == e.ret \in {"None", "False", "raised"}

\* the parameter values handed to the stage in which the solver failed
StageParams(e) ==
    IF e.stage = "primary" THEN [p \in camb.input_params |-> e.pp]
    ELSE [p \in camb_transfers.input_params |-> e.tp]

\* two evaluations one after the other, nothing requested in between, with equal
\* transfer-stage and different power-spectrum-stage parameter values
Successive ==
    /\ pc = "idle"
    /\ Finished(prev)
    /\ Finished(ev)
    /\ prev.needs_seen = ev.needs_seen
    /\ prev.tp = ev.tp
    /\ prev.pp # ev.pp

Invocations(e) == IF e.transfer_invoked = "none" THEN 0 ELSE 1

OtherSolverErrors == {"CAMBError", "CAMBValueError", "CAMBUnknownArgumentError"}

Resolved(d) == \A p \in DOMAIN d : d[p] # None

MissingDerivedRaises ==
    /\ ev.ret = "None" =>
          /\ Resolved(current_state[Key("derived_extra")])
          /\ Key("derived") \in DOMAIN current_state =>
                Resolved(current_state[Key("derived")])
    /\ ev.raised.what = "Derived param not implemented" =>
          /\ Len(ev.raised.params) = 1
          /\ ev.raised.params[1] \in SeqToSet(camb.output_params)

\* C10: after a needs() call that changed a collector, an extra_args entry or a
\* stage flag, whether it returned or raised, the cached base parameters are unset.
ConfigChangeResetsBaseParams ==
    (last.op = "needs" /\ last.changed) => camb._base_params = None

\* ------------------------------------------------------------- stage flags
\* the stage flags of the primary unit that are on
FlagsOn(self) ==
    {f \in {"needs_perts", "non_linear_sources", "non_linear_pk", "_needs_lensing_cross"} :
        self[f]}
    \cup {a \in {"Want_CMB", "WantCls", "Want_cl_2D_array", "WantTransfer"} :
            DictGet(self.extra_attrs, a, FALSE)}

\* C11: across needs() calls every stage flag only goes from off to on: a flag
\* that is on before a needs() call is on after it.
FlagsMonotonicStep == (nNeeds' = nNeeds + 1) => FlagsOn(camb) \subseteq FlagsOn(camb')

FlagsMonotonic == [][FlagsMonotonicStep]_vars

\* C12: after a needs() call that returns normally no name is both an input
\* parameter of the primary unit or of the helper stage and a key of extra_args;
\* a call that finds such a name raises.
NoRepeatedParameters ==
    last.op = "needs" =>
        (last.raised = "none" <=>
            /\ camb.input_params \cap DOMAIN camb.extra_args = {}
            /\ camb_transfers.input_params \cap DOMAIN camb.extra_args = {}
            /\ ~unsupported_units(last.v))

\* the helper stage has refused a name the primary unit accepts
RepeatedParameterRefused ==
    /\ last.op = "needs"
    /\ last.raised = "repeated_parameters"
    /\ camb.input_params \cap DOMAIN camb.extra_args = {}
    /\ camb_transfers.input_params \cap DOMAIN camb.extra_args # {}

\* C13: a needs() call whose request is identical to the one before it leaves
\* the aggregated configuration (collectors with their arguments, extra_args,
\* derived_extra, sources and the stage flags) as the first call left it.
RepeatedRequestStep ==
    (/\ nNeeds' = nNeeds + 1
     /\ last.op = "needs"
     /\ last'.k = last.k
     /\ last'.v = last.v
     /\ last'.raised = "none") =>
        Configuration(camb') = Configuration(camb)

RepeatedRequestIsNoOp == [][RepeatedRequestStep]_vars

\* the same for requests that repeat no redshift within themselves (this one holds)
RepeatedCleanRequestStep ==
    (/\ nNeeds' = nNeeds + 1
     /\ last.op = "needs"
     /\ last'.k = last.k
     /\ last'.v = last.v
     /\ last'.raised = "none"
     /\ (last.v # None /\ "z" \in DOMAIN last.v) =>
            Cardinality(SeqToSet(last.v.z)) = Len(last.v.z)) =>
        Configuration(camb') = Configuration(camb)

RepeatedCleanRequestIsNoOp == [][RepeatedCleanRequestStep]_vars

\* ---------------------------------------------------------- construction
\* C14: CambTransfers.initialize_with_params raises if and only if more than one
\* of H0, cosmomc_theta and thetastar is an input parameter of the helper stage:
\* a helper stage with more than one of them never gets past construction.
RedundantExpansionRefused ==
    Cardinality(camb_transfers.input_params \cap {"H0", "cosmomc_theta", "thetastar"}) > 1
        <=> (last.op = "init" /\ last.raised = "more_than_one" /\ aborted)

\* construction has been refused for a helper stage given H0 and cosmomc_theta
ExpansionRefusedAtInit ==
    /\ last.raised = "more_than_one"
    /\ aborted
    /\ camb_transfers.input_params = {"H0", "cosmomc_theta"}

\* ------------------------------------------------------ base parameters
\* set() has been called since the last needs(): the latest evaluation came after
\* it and its transfer stage was not answered from the cached state
SetSinceNeeds == ev.ret # "none" /\ ev.needs_seen = nNeeds /\ ~ev.hit

\* a step in which set() is called
SetCalled == nEvals' = nEvals + 1 /\ ~ev'.hit

\* the parameter object set() handed back from the solver in this step is a copy
\* of the base object carrying the point's values, and not the base object
CopyHandedToSolver ==
    (ev'.transfer_invoked # "none") =>
        LET p == camb_transfers'._current_state.camb_params
        IN  ev'.transfer_ok =>
              /\ p # camb'._base_params
              /\ p.base = camb'._base_params
              /\ \A q \in camb_transfers.input_params :
                     p.args[translate_param(q)] = ev'.tp

\* C15 as stated: between two needs() calls only the first set() builds
\* _base_params, every later set() leaves it unchanged and every set() hands the
\* solver a copy of it overlaid with the point's values.
BaseBuiltByFirstSetStep ==
    SetCalled =>
        /\ SetSinceNeeds => camb'._base_params = camb._base_params
        /\ camb._base_params # None => camb'._base_params = camb._base_params
        /\ CopyHandedToSolver

BaseBuiltByFirstSet == [][BaseBuiltByFirstSetStep]_vars

\* C15, amended: _base_params is built by a set() that finds it unset, which is
\* the first set() since the last needs() or one that follows a set() in which
\* the solver refused the values; once built every set() leaves it unchanged,
\* and every set() that returns parameters hands the solver a copy of it
\* overlaid with the point's values.
BaseBuiltOnceStep ==
    SetCalled =>
        /\ (SetSinceNeeds /\ camb'._base_params # camb._base_params)
              => (camb._base_params = None /\ ev.stage = "set" /\ ev.ret = "False")
        /\ camb._base_params # None => camb'._base_params = camb._base_params
        /\ CopyHandedToSolver

BaseBuiltOnce == [][BaseBuiltOnceStep]_vars

\* a second set() since the last needs() has returned parameters for another
\* point, and the base parameters are those the first one built
BaseReusedBySecondSet ==
    /\ nEvals = 2
    /\ ev.needs_seen = nNeeds /\ prev.needs_seen = nNeeds
    /\ ~ev.hit /\ prev.transfer_ok /\ ev.transfer_ok
    /\ ev.tp # prev.tp
    /\ camb._base_params # None
    /\ camb_transfers._current_state.camb_params.base = camb._base_params

\* ------------------------------------------------------------------ sigma8
\* how many times a name occurs in a list
Occurrences(seq, x) == Cardinality({i \in DOMAIN seq : seq[i] = x})

\* the primary stage of the latest evaluation has run and the solver did not fail
PrimaryRan == last.op = "calculate" /\ Finished(ev) /\ ev.solver_error = "ok"

\* C16: once sigma8 has been required bare, it is in derived_extra exactly once
\* and WantTransfer and needs_perts are on; every later evaluation whose transfer
\* stage calls the solver computes transfer functions, not the background only,
\* and its primary stage runs the matter-power calculation and reads sigma8 from
\* the result.
SigmaEightComputed ==
    ("sigma8" \in DOMAIN camb._needs /\ camb._needs["sigma8"] = None) =>
        /\ Occurrences(camb.derived_extra, "sigma8") = 1
        /\ camb.extra_attrs["WantTransfer"]
        /\ camb.needs_perts
        /\ (ev.needs_seen = nNeeds /\ ev.transfer_invoked # "none")
              => ev.transfer_invoked # "get_background"
        /\ (ev.needs_seen = nNeeds /\ PrimaryRan) =>
              /\ ev.ps_invoked
              /\ ev.ret = "None" =>
                    current_state[Key("derived_extra")]["sigma8"]
                        = Value("get_sigma8", "sigma8")

\* C17: a primary calculate that follows a successful transfer stage never reads
\* a derived parameter from an absent (None) result object.
ResultPresentWhenRead ==
    (Finished(ev) /\ ev.transfer_ok) => ev.raised.kind # "AttributeError"

\* ------------------------------------------------------- evaluation state
\* the keys of the evaluation state that are not products
StateMaps == {Key("params"), Key("derived"), Key("derived_extra")}

\* the primary calculate of the latest evaluation has returned without failing
PrimarySucceeded == last.op = "calculate" /\ ev.ret = "None"

\* C18: after a primary calculate that does not fail the evaluation state holds
\* one entry per registered collector key (the output of the collector's method
\* on the result object, or the result object itself for a collector without a
\* method), a derived_extra map whose names are exactly those of derived_extra
\* and, when derived parameters are wanted (and only then), a derived map whose
\* names are exactly the output parameters.
StatePopulated ==
    PrimarySucceeded =>
        /\ DOMAIN current_state \ StateMaps = DOMAIN camb.collectors
        /\ \A key \in DOMAIN camb.collectors :
              IF camb.collectors[key] = NoCollector
              THEN current_state[key] = camb_transfers._current_state.results
              ELSE current_state[key] =
                      [method |-> camb.collectors[key].method,
                       kwargs |-> camb.collectors[key].kwargs,
                       results |-> camb_transfers._current_state.results]
        /\ Key("derived_extra") \in DOMAIN current_state
        /\ DOMAIN current_state[Key("derived_extra")] = SeqToSet(camb.derived_extra)
        /\ ev.want_derived <=> Key("derived") \in DOMAIN current_state
        /\ ev.want_derived =>
              DOMAIN current_state[Key("derived")] = SeqToSet(camb.output_params)

\* a calculate has succeeded with the passthrough collector registered and
\* output parameters wanted
PassthroughAndDerivedStored ==
    /\ PrimarySucceeded
    /\ Key("CAMBdata") \in DOMAIN camb.collectors
    /\ current_state[Key("CAMBdata")] = camb_transfers._current_state.results
    /\ ev.want_derived
    /\ DOMAIN current_state[Key("derived")] = {"H0", "age"}

\* ------------------------------------------------------ order of the stages
\* a step in which camb.calculate runs
PrimaryCalled == pc = "primary" /\ pc' = "idle"

\* C19: in a transfer stage, a solver error inside set() makes the stage return
\* the failure (False, or the error raised) without invoking a routine or storing
\* a result; a routine is invoked only after set() has returned the parameters of
\* the point, and the pair stored is made of those parameters and the result
\* computed from them.  The primary stage runs only on a stored pair, and
\* power_spectra_from_transfer acts on the result of that pair.
SetBeforeSolveStep ==
    /\ SetCalled =>
          /\ ev'.stage = "set" =>
                /\ ev'.ret \in {"False", "raised"}
                /\ ev'.transfer_invoked = "none"
                /\ camb_transfers' = camb_transfers
                /\ pc' = "idle"
          /\ ev'.transfer_invoked # "none" => camb'._base_params # None
          /\ ev'.transfer_ok =>
                LET st == camb_transfers'._current_state
                IN  /\ st.camb_params.base = camb'._base_params
                    /\ \A q \in camb_transfers.input_params :
                           st.camb_params.args[translate_param(q)] = ev'.tp
                    /\ st.results.Params = st.camb_params
                    /\ st.results.routine = ev'.transfer_invoked
    /\ PrimaryCalled =>
          /\ ev.transfer_ok
          /\ camb_transfers._current_state # None
          /\ camb_transfers'._current_state.camb_params
                = camb_transfers._current_state.camb_params
          /\ ev'.ps_invoked =>
                /\ camb_transfers'._current_state.results.routine
                      = camb_transfers._current_state.results.routine
                /\ camb_transfers'._current_state.results.Params
                      = camb_transfers._current_state.results.Params

SetBeforeSolve == [][SetBeforeSolveStep]_vars

\* set() has failed in the solver without raising: the transfer stage returned
\* False, invoked no routine and holds no result
SetFailureStopsTransfer ==
    /\ last.op = "transfer"
    /\ ev.stage = "set" /\ ev.solver_error = "CAMBParamRangeError"
    /\ ev.ret = "False"
    /\ ev.transfer_invoked = "none"
    /\ camb_transfers._current_state = None

\* --------------------------------------------------- choice of the routine
\* the requirements whose branch of needs() asks for perturbations
\* (lines 322, 347, 370, 385, 399)
PerturbationRequirements ==
    {"Cl", "source_Cl", "sigma8", "fsigma8"} \cup PkProducts

\* the routine the flags of the primary unit call for
RoutineFor(self) ==
    IF self.non_linear_sources THEN "get_transfer_functions_only_time_sources"
    ELSE IF self.needs_perts THEN "get_transfer_functions"
    ELSE "get_background"

\* C20: as long as every needs() call has returned its summary to the helper
\* stage, the helper's non_linear_sources and needs_perts equal the primary
\* unit's; the routine the transfer stage calls is the time-sources-only one when
\* non_linear_sources is on, else the full transfer one when needs_perts is on,
\* else the background one, and it is the background one exactly when no
\* accumulated requirement asks for perturbations.
HelperFollowsPrimary ==
    ~aborted =>
        /\ camb_transfers.non_linear_sources = camb.non_linear_sources
        /\ camb_transfers.needs_perts = camb.needs_perts
        /\ transfer_routine(camb_transfers) = RoutineFor(camb)
        /\ transfer_routine(camb_transfers) = "get_background"
              <=> DOMAIN camb._needs \cap PerturbationRequirements = {}
        /\ (ev.needs_seen = nNeeds /\ ev.transfer_invoked # "none")
              => ev.transfer_invoked = RoutineFor(camb)

\* the transfer stage has called the full transfer routine for a requirement
\* that asks for perturbations without non-linear sources
FullTransferForSigmaEight ==
    /\ last.op = "transfer"
    /\ DOMAIN camb._needs = {"sigma8"}
    /\ ~camb_transfers.non_linear_sources /\ camb_transfers.needs_perts
    /\ ev.transfer_invoked = "get_transfer_functions"

\* ------------------------------------------------------- order of requests
\* the primary unit after needs() has been called with each request of reqs in
\* turn, starting from self; raised tells whether one of the calls raised
RECURSIVE Replay(_, _)
Replay(self, reqs) ==
    IF reqs = <<>> THEN [self |-> self, raised |-> "none"]
    ELSE LET r == camb_needs(self, Head(reqs).k, Head(reqs).v)
         IN  IF r.raised # "none" THEN r ELSE Replay(r.self, Tail(reqs))

\* the aggregated flags and the NonLinear setting
FlagsAndNonLinear(self) ==
    <<FlagsOn(self), DictGet(self.extra_attrs, "NonLinear", "unset")>>

\* C21: the aggregated flags and the NonLinear setting reached by a sequence of
\* accepted requests are those reached by the same requests in reverse order.
OrderIndependent ==
    (~aborted /\ Len(history) >= 2) =>
        \E r \in {Replay(initialize(config), Reverse(history))} :
            r.raised = "none" => FlagsAndNonLinear(r.self) = FlagsAndNonLinear(camb)

\* -------------------------------------------------------------- NonLinear
\* the last needs() call raised
NeedsRaised == last.op = "needs" /\ last.raised \notin {"none", "repeated_parameters"}

\* C22: once a needs() call has returned normally, extra_attrs['NonLinear'] is
\* both when non_linear_sources and non_linear_pk are on, lensing-only when only
\* the first is, matter-power-only when only the second is, none when both are off.
NonLinearFollowsFlags ==
    (history # <<>> /\ ~NeedsRaised /\ camb.input_params \cap DOMAIN camb.extra_args = {}) =>
        /\ "NonLinear" \in DOMAIN camb.extra_attrs
        /\ camb.extra_attrs["NonLinear"] =
              IF camb.non_linear_sources
              THEN (IF camb.non_linear_pk THEN "NonLinear_both" ELSE "NonLinear_lens")
              ELSE (IF camb.non_linear_pk THEN "NonLinear_pk" ELSE "NonLinear_none")

\* a needs() call has returned with non-linear matter power wanted and no
\* non-linear sources
MatterPowerOnly ==
    /\ last.op = "needs" /\ last.raised = "none"
    /\ camb.non_linear_pk /\ ~camb.non_linear_sources
    /\ camb.extra_attrs["NonLinear"] = "NonLinear_pk"

\* ------------------------------------------------------ precision maxima
\* the multipole maximum a request asks for (0 when it asks for none)
RequestedLmax(r) ==
    IF r.k = "Cl" THEN MaxOfSet(Values(r.v))
    ELSE IF r.k = "source_Cl" THEN DictGet(r.v, "lmax", 0)
    ELSE 0

\* the k maximum a request asks for (0 when it asks for none)
RequestedKmax(r) == IF r.k \in PkProducts THEN r.v.k_max ELSE 0

\* the largest of a start value and the multipole maxima requested
RECURSIVE RunningLmax(_, _)
RunningLmax(start, reqs) ==
    IF reqs = <<>> THEN start
    ELSE RunningLmax(IF RequestedLmax(Head(reqs)) > start
                     THEN RequestedLmax(Head(reqs)) ELSE start, Tail(reqs))

\* the largest of a start value and the k maxima requested
RECURSIVE RunningKmax(_, _)
RunningKmax(start, reqs) ==
    IF reqs = <<>> THEN start
    ELSE RunningKmax(IF RequestedKmax(Head(reqs)) > start
                     THEN RequestedKmax(Head(reqs)) ELSE start, Tail(reqs))

\* extra_args['lmax'] and extra_args['kmax'] are the running maxima
PrecisionMaxima ==
    /\ DictGet(camb.extra_args, "lmax", 0)
          = RunningLmax(DictGet(config.extra_args, "lmax", 0), history)
    /\ DictGet(camb.extra_args, "kmax", 0)
          = RunningKmax(DictGet(config.extra_args, "kmax", 0), history)

\* C23: after every needs() call extra_args['lmax'] is the maximum of its initial
\* value and every multipole maximum requested through Cl or source_Cl, and
\* extra_args['kmax'] the maximum of its initial value and every k_max requested
\* through Pk_grid or Pk_interpolator; neither value decreases.
PrecisionMaximaStep ==
    /\ PrecisionMaxima'
    /\ DictGet(camb'.extra_args, "lmax", 0) >= DictGet(camb.extra_args, "lmax", 0)
    /\ DictGet(camb'.extra_args, "kmax", 0) >= DictGet(camb.extra_args, "kmax", 0)

PrecisionMaximaKept == [][PrecisionMaximaStep]_vars

\* a smaller k_max and a smaller multipole maximum have been requested after
\* larger ones, and the larger ones are kept
SmallerRequestsAbsorbed ==
    /\ Len(history) = 3 /\ ~aborted
    /\ history[1].k = "source_Cl" /\ history[2].k = "Cl" /\ history[3].k \in PkProducts
    /\ DictGet(config.extra_args, "kmax", 0) > history[3].v.k_max
    /\ camb.extra_args["lmax"] = 3
    /\ camb.extra_args["kmax"] = 2

\* --------------------------------------------------------- lensing spectra
\* the Cl types accumulated so far, in lower case
AccumulatedCls ==
    IF "Cl" \in DOMAIN camb._needs THEN {lower(a) : a \in DOMAIN camb._needs["Cl"]} ELSE {}

\* C24 as stated: the lensing-cross flag is on exactly when the accumulated Cl
\* types include at least one of pp, pt, pe, tp, ep.
LensingCrossFromAnyLensingType ==
    ~NeedsRaised =>
        (camb._needs_lensing_cross <=> AccumulatedCls \cap {"pp", "pt", "pe", "tp", "ep"} # {})

\* C24, amended: the lensing-cross flag is on exactly when the accumulated Cl
\* types include at least one of pt, pe, tp, ep; the lensing-potential spectra
\* are asked of the solver exactly when they include at least one of pp, pt, pe,
\* tp, ep.
LensingCrossFromCrossTypes ==
    ~NeedsRaised =>
        /\ camb._needs_lensing_cross <=> AccumulatedCls \cap {"pt", "pe", "tp", "ep"} # {}
        /\ "Cl" \in DOMAIN camb._needs =>
              ("lens_potential" \in camb.collectors[Key("Cl")].kwargs.spectra
                  <=> AccumulatedCls \cap {"pp", "pt", "pe", "tp", "ep"} # {})

\* pp has been requested without any cross type: the lensing-potential spectra
\* are asked for and the lensing-cross flag is off
LensingAutoOnly ==
    /\ last.op = "needs" /\ last.raised = "none"
    /\ "pp" \in AccumulatedCls
    /\ AccumulatedCls \cap {"pt", "pe", "tp", "ep"} = {}
    /\ "lens_potential" \in camb.collectors[Key("Cl")].kwargs.spectra
    /\ ~camb._needs_lensing_cross

\* ------------------------------------------------------- lensing accuracy
\* C25: once a Cl request that includes pp has been processed with no
\* lens_potential_accuracy configured, the accuracy is 1 and non_linear_sources is
\* on; a configured accuracy is never changed by needs(); and after a Cl request
\* non_linear_sources is on whenever the accuracy is at least 1.
LensingAccuracyDefault ==
    /\ "lens_potential_accuracy" \in DOMAIN config.extra_args =>
          /\ "lens_potential_accuracy" \in DOMAIN camb.extra_args
          /\ camb.extra_args["lens_potential_accuracy"]
                = config.extra_args["lens_potential_accuracy"]
    /\ (~NeedsRaised /\ "Cl" \in DOMAIN camb._needs) =>
          /\ ("pp" \in AccumulatedCls
                /\ "lens_potential_accuracy" \notin DOMAIN config.extra_args) =>
                /\ "lens_potential_accuracy" \in DOMAIN camb.extra_args
                /\ camb.extra_args["lens_potential_accuracy"] = 1
                /\ camb.non_linear_sources
          /\ ("lens_potential_accuracy" \in DOMAIN camb.extra_args
                /\ camb.extra_args["lens_potential_accuracy"] >= 1) =>
                camb.non_linear_sources

\* pp has been requested with no accuracy configured: the accuracy is now 1 and
\* non_linear_sources is on
AccuracyDefaulted ==
    /\ last.op = "needs" /\ last.raised = "none"
    /\ last.k = "Cl" /\ "PP" \in DOMAIN last.v
    /\ "lens_potential_accuracy" \notin DOMAIN config.extra_args
    /\ camb.extra_args["lens_potential_accuracy"] = 1
    /\ camb.non_linear_sources

\* ---------------------------------------------------- matter-power keys
\* the requests needs() has gone through without the loop raising
Processed == IF NeedsRaised THEN SubSeq(history, 1, Len(history) - 1) ELSE history

\* the pairs a matter-power request names
RequestedPairs(v) == SeqToSet(v.vars_pairs)

\* the pair in the order of Python's sorted()
InOrder(pair) ==
    IF VarRank(pair[1]) <= VarRank(pair[2]) THEN pair ELSE <<pair[2], pair[1]>>

\* C26: every matter-power collector is keyed by ('Pk_grid', nonlinear flag,
\* sorted pair), whether it was requested as Pk_grid or as Pk_interpolator, and
\* every pair named by a processed request has the entry of its flag and sorted
\* pair: a linear and a non-linear request for one pair have two entries, and
\* (a, b) and (b, a) with the same flag have the same one.
PkKeyedByFlagAndSortedPair ==
    /\ \A key \in DOMAIN camb.collectors :
          (Len(key) > 1 \/ key[1] \in PkProducts) =>
              /\ Len(key) = 4
              /\ key[1] = "Pk_grid"
              /\ key[2] \in BOOLEAN
              /\ VarRank(key[3]) <= VarRank(key[4])
    /\ \A i \in DOMAIN Processed :
          Processed[i].k \in PkProducts =>
              \A pair \in RequestedPairs(Processed[i].v) :
                  <<"Pk_grid", Processed[i].v.nonlinear>> \o InOrder(pair)
                      \in DOMAIN camb.collectors

\* a linear and a non-linear entry exist for (delta_tot, delta_tot), and the
\* pair (delta_tot, delta_nonu), requested through Pk_interpolator, is held
\* under its sorted form only
PkEntriesSeparateAndShared ==
    /\ ~aborted
    /\ \E i \in DOMAIN history :
          /\ history[i].k = "Pk_interpolator"
          /\ <<"delta_tot", "delta_nonu">> \in RequestedPairs(history[i].v)
    /\ <<"Pk_grid", FALSE, "delta_tot", "delta_tot">> \in DOMAIN camb.collectors
    /\ <<"Pk_grid", TRUE, "delta_tot", "delta_tot">> \in DOMAIN camb.collectors
    /\ <<"Pk_grid", FALSE, "delta_nonu", "delta_tot">> \in DOMAIN camb.collectors
    /\ <<"Pk_grid", FALSE, "delta_tot", "delta_nonu">> \notin DOMAIN camb.collectors

\* ------------------------------------------------------- derived lookups
\* where the value of a name is expected to come from, the lookups being tried
\* in the order: derived mapping (a non-None entry), sigma8 special case,
\* attribute of the parameter object, attribute of the result object, get_<name>
\* accessor; present tells whether there is a result object
ExpectedSource(p, present) ==
    IF present /\ p \in DerivedMapNames THEN "derived"
    ELSE IF p = "sigma8" THEN "get_sigma8"
    ELSE IF p \in {"TCMB", "H0", "omegam", "zstar", "kd"} THEN "camb_params"
    ELSE IF present /\ p \in {"omega_de", "omegam", "N_eff"} THEN "results"
    ELSE IF p \in {"zre", "N_eff"} THEN "get_"
    ELSE "none"

\* the value of that lookup
ExpectedValue(p, present) ==
    IF ExpectedSource(p, present) = "none" THEN None
    ELSE Value(ExpectedSource(p, present), p)

\* C27: every derived value stored by a calculate that returned comes from the
\* first lookup that resolves its name, in the order derived mapping, sigma8
\* special case, parameter-object attribute, result-object attribute, get_<name>
\* accessor, and is None only when none of them resolves it.
DerivedLookupOrder ==
    PrimarySucceeded =>
        /\ \A p \in DOMAIN current_state[Key("derived_extra")] :
              current_state[Key("derived_extra")][p]
                  = ExpectedValue(p, DOMAIN camb.collectors # {})
        /\ ev.want_derived =>
              \A p \in DOMAIN current_state[Key("derived")] :
                  current_state[Key("derived")][p]
                      = ExpectedValue(translate_param(p), DOMAIN camb.collectors # {})

\* names offered by several lookups have been resolved with a result object
\* present: each comes from the first lookup in the order
SeveralLookupsResolved ==
    /\ PrimarySucceeded /\ ev.want_derived
    /\ DOMAIN camb.collectors # {}
    /\ DOMAIN current_state[Key("derived")] = {"zstar", "kd", "omegam", "N_eff", "zre"}
    /\ current_state[Key("derived")]["zstar"].src = "derived"
    /\ current_state[Key("derived")]["kd"].src = "camb_params"
    /\ current_state[Key("derived")]["omegam"].src = "camb_params"
    /\ current_state[Key("derived")]["N_eff"].src = "results"
    /\ current_state[Key("derived")]["zre"].src = "get_"

\* ------------------------------------------------- redshift-dependent reads
\* the redshifts requested for a product so far
RECURSIVE RequestedZ(_, _)
RequestedZ(quantity, reqs) ==
    IF reqs = <<>> THEN {}
    ELSE (IF Head(reqs).k = quantity THEN SeqToSet(Head(reqs).v.z) ELSE {})
         \cup RequestedZ(quantity, Tail(reqs))

\* the state read was computed after the last needs() call, by a helper stage
\* that ran the solver for it rather than reusing an earlier result
StateIsCurrent == ev.ret = "None" /\ ev.needs_seen = nNeeds /\ ~ev.hit

\* C28: when every redshift of the caller's list was requested for the product,
\* _get_z_dependent returns one row per redshift of the list, in the caller's
\* order, and row i is the row of the product computed at redshift z[i].
RowsMatchRequestedRedshifts ==
    (/\ last.op = "get_z"
     /\ StateIsCurrent
     /\ SeqToSet(last.v.z) \subseteq RequestedZ(last.k, history)) =>
        /\ last.raised = "none"
        /\ Len(last.v.rows) = Len(last.v.z)
        /\ \A i \in DOMAIN last.v.z :
              last.v.rows[i] = [quantity |-> last.k, z |-> last.v.z[i]]

\* Hubble has been read back at z = (2, 0), in that order, from a grid that
\* holds 0 before 2
HubbleRowsInCallerOrder ==
    /\ last.op = "get_z" /\ last.k = "Hubble" /\ last.raised = "none"
    /\ StateIsCurrent
    /\ last.v.z = <<2, 0>>
    /\ camb.collectors[Key("Hubble")].kwargs.z[1] = 0
    /\ last.v.rows = << [quantity |-> "Hubble", z |-> 2], [quantity |-> "Hubble", z |-> 0] >>

\* ------------------------------------------------- declared requirements
\* C29: initialize() splits the declared required parameters into two disjoint
\* lists that together hold every declared name once: those among the primary
\* unit's primordial-spectrum and non-linear-model parameters stay in requires,
\* the others make _transfer_requires, which is what the helper stage is given
\* as its requirements; and no name taken from extra_args for the two models is
\* one of the primary unit's parameters.
RequiresPartitioned ==
    /\ SeqToSet(camb.requires) \cap SeqToSet(camb._transfer_requires) = {}
    /\ SeqToSet(camb.requires) \cup SeqToSet(camb._transfer_requires)
          = SeqToSet(config.requires)
    /\ Len(camb.requires) + Len(camb._transfer_requires) = Len(config.requires)
    /\ \A p \in SeqToSet(config.requires) :
          p \in SeqToSet(camb.requires)
              <=> p \in SeqToSet(camb.power_params) \cup SeqToSet(camb.nonlin_params)
    /\ camb_transfers.requires = camb._transfer_requires
    /\ (DOMAIN camb.initial_power_args \cup DOMAIN camb.nonlin_args)
          \cap (SeqToSet(camb.power_params) \cup SeqToSet(camb.nonlin_params)) = {}

\* ns is configured in extra_args and declared as required: it is an argument of
\* the primordial spectrum, not a parameter of the primary unit, and goes to the
\* helper stage with H0 and ombh2
ConfiguredNameGoesToHelper ==
    /\ "ns" \in DOMAIN camb.initial_power_args
    /\ camb.requires = <<"As", "halofit_version">>
    /\ camb_transfers.requires = <<"H0", "ombh2", "HMCode_eta_baryon", "ns">>
    /\ nNeeds > 0

====
